---- MODULE Spec2Model ----
(***************************************************************************)
(* A model of src/pyactup_v2.py: the Memory class (a dict of chunks keyed  *)
(* by signature, a clock and the tunable parameters) and the Chunk class.  *)
(*                                                                         *)
(* Representation.                                                         *)
(*  - Python floats are fixed point numbers with three decimals: 1.0 is    *)
(*    1000.  math.log, math.exp and math.pow are the fixed point           *)
(*    operators LnMilli, ExpMilli and Pow below.                           *)
(*  - None is the empty sequence <<>>; a value v that may also be None is  *)
(*    <<v>>.                                                               *)
(*  - Memory is a dict, which iterates in insertion order: chunks is the   *)
(*    sequence of its values in that order, each carrying its key (sig).   *)
(*  - Times are integers (advance is called with integral amounts), so     *)
(*    the transcendental caches are always indexed by an int.              *)
(*  - activation_history stays None, as after construction.                *)
(*  - registry holds the class attributes of Memory that the module level  *)
(*    functions set: the similarity functions and the spreading hooks.     *)
(*    A registered function is named by what it does.                      *)
(*  - last and before are history variables: the last operation with its   *)
(*    arguments and outcome, and the store as it was before the last       *)
(*    learn.  spread_calls counts the spread calls since the accumulators  *)
(*    were last cleared; it bounds them.                                   *)
(***************************************************************************)
EXTENDS Integers, Sequences, FiniteSets, TLC

VARIABLES chunks, time, noise, decay, temperature_param, temperature,
          threshold, mismatch, optimized_learning, W, mas, ln_1_mius_d,
          expt_cache, ln_cache, registry, last, before, spread_calls

vars == <<chunks, time, noise, decay, temperature_param, temperature,
          threshold, mismatch, optimized_learning, W, mas, ln_1_mius_d,
          expt_cache, ln_cache, registry, last, before, spread_calls>>

params == <<noise, decay, temperature_param, temperature, threshold,
            mismatch, optimized_learning, W, mas, ln_1_mius_d>>

caches == <<expt_cache, ln_cache>>

(* Everything a Memory object holds. *)
memory == <<chunks, time, params, caches>>

----------------------------------------------------------------------------
(* Bounds of the model. *)

MaxTime == 1

MaxRefs == 2

MaxSpreads == 2

----------------------------------------------------------------------------
(* Program constants, in fixed point. *)

DEFAULT_NOISE == 250

DEFAULT_DECAY == 500

DEFAULT_THRESHOLD == -10000

MINIMUM_TEMPERATURE == 10

TRANSCENDENTAL_CACHE_SIZE == 1000

DEFAULT_W == 1000

DEFAULT_MAS == 1600

SQRT_2 == 1414

(* sys.float_info.max: larger than every value the model computes. *)
FLOAT_MAX == 2000000000

ONE == 1000

None == <<>>

Some(v) == <<v>>

(* The string the decay setter leaves in _ln_1_mius_d before raising. *)
IllegalValue == <<>>

----------------------------------------------------------------------------
(* Fixed point math. *)

LN2 == 693

(* ln at 1.0, 1.125, ..., 2.0 *)
LnKnots == <<0, 118, 223, 318, 405, 486, 560, 629, 693>>

(* math.log(x / 1000) * 1000 for x > 0 *)
RECURSIVE LnMilli(_)
LnMilli(x) ==
    IF x < ONE THEN LnMilli(2 * x) - LN2
    ELSE IF x >= 2 * ONE THEN LnMilli(x \div 2) + LN2
    ELSE LET seg == (x - ONE) \div 125
             lo  == LnKnots[seg + 1]
             hi  == LnKnots[seg + 2]
         IN  lo + ((hi - lo) * ((x - ONE) % 125)) \div 125

(* math.exp(x / 1000) * 1000; below -20.0 it underflows to 0 *)
RECURSIVE ExpMilli(_)
ExpMilli(x) ==
    IF x < -20 * ONE THEN 0
    ELSE IF x < 0 THEN ExpMilli(x + LN2) \div 2
    ELSE IF x >= LN2 THEN 2 * ExpMilli(x - LN2)
    ELSE ONE + x + (x * x) \div 2000 + (x * x * x) \div 6000000

(* math.pow(base, -d) raises ValueError for 0 to a negative power *)
PowRaises(base, d) == base = 0 /\ d > 0

(* math.pow(base, -d) for an integer base >= 0 and d in fixed point *)
Pow(base, d) ==
    IF base = 0 \/ d = 0 THEN ONE
    ELSE ExpMilli((0 - d * LnMilli(base * ONE)) \div ONE)

(* Python truthiness of a number or None *)
Truthy(opt) == opt # None /\ opt[1] # 0

----------------------------------------------------------------------------
(* Attribute names and values; keyword arguments in the order given. *)

Names == {"a", "b"}

(* Python's order of the attribute names *)
NameRank(n) == IF n = "a" THEN 1 ELSE 2

KwKeys(kw) == {kw[i][1] : i \in DOMAIN kw}

KwValue(kw, n) == kw[CHOOSE i \in DOMAIN kw : kw[i][1] = n][2]

(* dict(kwargs): the chunk's content, a mapping from names to values *)
KwDict(kw) == [n \in KwKeys(kw) |-> KwValue(kw, n)]

(* sorted(kwargs.items()): insertion of item p into the sorted sequence s *)
RECURSIVE InsertSorted(_, _)
InsertSorted(p, s) ==
    IF s = <<>> THEN <<p>>
    ELSE IF NameRank(p[1]) <= NameRank(Head(s)[1]) THEN <<p>> \o s
    ELSE <<Head(s)>> \o InsertSorted(p, Tail(s))

RECURSIVE Sorted(_)
Sorted(kw) == IF kw = <<>> THEN <<>> ELSE InsertSorted(Head(kw), Sorted(Tail(kw)))

(* A keyword order that is not canonical: the items as given. *)
SignatureUnsorted(kw) == kw

(* signature = tuple(sorted(kwargs.items())) *)
Signature(kw) == Sorted(kw)

(* self.get(signature): the position of the chunk with that key, 0 if none *)
Find(store, sig) ==
    IF \E i \in DOMAIN store : store[i].sig = sig
    THEN CHOOSE i \in DOMAIN store : store[i].sig = sig
    ELSE 0

(* del self[signature] *)
Remove(store, i) == [j \in 1..(Len(store) - 1) |-> IF j < i THEN store[j] ELSE store[j + 1]]

(* Chunk.__init__ *)
NewChunk(kw, sig, now, ol) ==
    [sig |-> sig,
     content |-> KwDict(kw),
     creation |-> now,
     references |-> IF ol THEN 0 ELSE <<>>,
     base_activation_time |-> None,
     base_activation |-> None,
     spreading_activation |-> None,
     importance |-> 0]

(* The draws of math.log(random.uniform(eps, 2 - eps)): p = 0.5, 1.5 *)
ImportanceDraws == {-693, 405}

(* Chunk.importance setter; imp is None or a number, draw the random sample *)
SetImportance(c, imp, draw) ==
    [c EXCEPT !.importance = IF imp = None THEN draw ELSE imp[1]]

(* The outcome of an operation: its name, the exception it raised ("none"  *)
(* if it returned), its arguments, and what it returned.                   *)
Outcome(op, err, kw, arg, ret, found, evals) ==
    [op |-> op, err |-> err, kw |-> kw, arg |-> arg, ret |-> ret,
     found |-> found, evals |-> evals]

Returned(op, kw, arg, ret) == Outcome(op, "none", kw, arg, ret, 0, <<>>)

Raised(op, err, kw, arg) == Outcome(op, err, kw, arg, FALSE, 0, <<>>)

----------------------------------------------------------------------------
(* learn and forget *)

(* The store after learn(importance=imp, **kw): the body of Memory.learn *)
LearnStore(store, kw, imp, draw, now, ol) ==
    LET signature == Signature(kw)
        found     == Find(store, signature)
        created   == found = 0
        store1    == IF created
                     THEN Append(store, NewChunk(kw, signature, now, ol))
                     ELSE store
        i         == IF created THEN Len(store1) ELSE found
        chunk1    == IF ol
                     THEN [store1[i] EXCEPT !.references = @ + 1]
                     ELSE [store1[i] EXCEPT !.references = Append(@, now)]
    IN  [created |-> created,
         store |-> [store1 EXCEPT ![i] = SetImportance(chunk1, imp, draw)]]

(* list.remove(when): drops the first occurrence *)
RECURSIVE ListRemove(_, _)
ListRemove(refs, when) ==
    IF refs = <<>> THEN <<>>
    ELSE IF Head(refs) = when THEN Tail(refs)
    ELSE <<Head(refs)>> \o ListRemove(Tail(refs), when)

InList(refs, when) == \E k \in DOMAIN refs : refs[k] = when

(* A test that takes an empty list for a reference history. *)
NoReferencesOnlyZero(refs, ol) == ol /\ refs = 0

(* not chunk._references: an empty list or a zero count *)
NoReferences(refs, ol) == IF ol THEN refs = 0 ELSE refs = <<>>

(* The store after forget(when, **kw), and what forget returns *)
ForgetStore(store, kw, when, ol) ==
    LET signature == Signature(kw)
        i         == Find(store, signature)
    IN  IF i = 0 THEN [ret |-> FALSE, store |-> store]
        ELSE IF ~ol /\ ~InList(store[i].references, when)
        THEN [ret |-> FALSE, store |-> store]
        ELSE LET refs == IF ol THEN store[i].references - 1
                         ELSE ListRemove(store[i].references, when)
             IN  [ret |-> TRUE,
                  store |-> IF NoReferences(refs, ol) THEN Remove(store, i)
                            ELSE [store EXCEPT ![i].references = refs]]

RefCount(c) == IF optimized_learning THEN c.references ELSE Len(c.references)

(* learn(importance=imp, **kw); learn() without attributes raises *)
learn(kw, imp, draw) ==
    /\ IF kw = <<>>
       THEN /\ last' = Raised("learn", "ValueError", kw, None)
            /\ UNCHANGED <<chunks, before>>
       ELSE LET r == LearnStore(chunks, kw, imp, draw, time, optimized_learning)
                i == Find(chunks, Signature(kw))
            IN  /\ IF i = 0 THEN TRUE ELSE RefCount(chunks[i]) < MaxRefs
                /\ chunks' = r.store
                /\ before' = chunks
                /\ last' = Returned("learn", kw, Some(time), r.created)
    /\ UNCHANGED <<time, params, caches, registry, spread_calls>>

(* forget(when, **kw) *)
forget(when, kw) ==
    /\ IF kw = <<>>
       THEN /\ last' = Raised("forget", "ValueError", kw, Some(when))
            /\ UNCHANGED chunks
       ELSE LET r == ForgetStore(chunks, kw, when, optimized_learning)
            IN  /\ chunks' = r.store
                /\ last' = Returned("forget", kw, Some(when), r.ret)
    /\ before' = <<>>
    /\ UNCHANGED spread_calls
    /\ UNCHANGED <<time, params, caches, registry>>

(* An advance that does not reject a negative amount. *)
AdvanceUnchecked(amount) ==
    /\ time + amount <= MaxTime
    /\ time' = time + amount
    /\ last' = Returned("advance", <<>>, Some(amount), TRUE)
    /\ before' = <<>>
    /\ UNCHANGED spread_calls
    /\ UNCHANGED <<chunks, params, caches, registry>>

(* advance(amount) *)
advance(amount) ==
    /\ IF amount < 0
       THEN /\ last' = Raised("advance", "ValueError", <<>>, Some(amount))
            /\ UNCHANGED time
       ELSE /\ time + amount <= MaxTime
            /\ time' = time + amount
            /\ last' = Returned("advance", <<>>, Some(amount), TRUE)
    /\ before' = <<>>
    /\ UNCHANGED spread_calls
    /\ UNCHANGED <<chunks, params, caches, registry>>

(* A reset that clears the store and the time before it checks the decay. *)
ResetClearsFirst(ol) ==
    /\ chunks' = <<>>
    /\ time' = 0
    /\ IF ol = Some(TRUE) /\ decay >= ONE
       THEN /\ last' = Raised("reset", "RuntimeError", <<>>, ol)
            /\ UNCHANGED optimized_learning
       ELSE /\ optimized_learning' = IF ol # None THEN ol[1] ELSE optimized_learning
            /\ last' = Returned("reset", <<>>, ol, TRUE)
    /\ before' = <<>>
    /\ UNCHANGED spread_calls
    /\ UNCHANGED <<noise, decay, temperature_param, temperature, threshold,
                   mismatch, W, mas, ln_1_mius_d, caches, registry>>

(* reset(optimized_learning=ol): ol is None, <<TRUE>> or <<FALSE>> *)
reset(ol) ==
    /\ IF ol = Some(TRUE) /\ decay >= ONE
       THEN /\ last' = Raised("reset", "RuntimeError", <<>>, ol)
            /\ UNCHANGED <<chunks, time, optimized_learning>>
       ELSE /\ chunks' = <<>>
            /\ time' = 0
            /\ optimized_learning' = IF ol # None THEN ol[1] ELSE optimized_learning
            /\ last' = Returned("reset", <<>>, ol, TRUE)
    /\ before' = <<>>
    /\ UNCHANGED spread_calls
    /\ UNCHANGED <<noise, decay, temperature_param, temperature, threshold,
                   mismatch, W, mas, ln_1_mius_d, caches, registry>>
----------------------------------------------------------------------------
(* The parameters *)

(* Memory._validate_temperature: None when the temperature is too low *)
validate_temperature(temp, n) ==
    LET t == IF temp # None THEN temp[1] ELSE (SQRT_2 * n) \div ONE
    IN  IF t < MINIMUM_TEMPERATURE THEN None ELSE Some(t)

(* A noise setter that leaves the derived temperature as it was. *)
SetNoiseKeepsTemperature(value) ==
    /\ IF value < 0
       THEN /\ last' = Raised("noise", "ValueError", <<>>, Some(value))
            /\ UNCHANGED noise
       ELSE /\ noise' = value
            /\ last' = Returned("noise", <<>>, Some(value), TRUE)
    /\ before' = <<>>
    /\ UNCHANGED spread_calls
    /\ UNCHANGED <<chunks, time, decay, temperature_param, temperature, threshold,
                   mismatch, optimized_learning, W, mas, ln_1_mius_d, caches, registry>>

(* noise setter *)
set_noise(value) ==
    /\ IF value < 0
       THEN /\ last' = Raised("noise", "ValueError", <<>>, Some(value))
            /\ UNCHANGED <<noise, temperature_param, temperature>>
       ELSE /\ IF temperature_param = None
               THEN LET t == validate_temperature(temperature_param, value)
                    IN  IF t = None
                        THEN /\ temperature_param' = Some(ONE)
                             /\ temperature' = ONE
                        ELSE /\ temperature' = t[1]
                             /\ UNCHANGED temperature_param
               ELSE UNCHANGED <<temperature_param, temperature>>
            /\ noise' = value
            /\ last' = Returned("noise", <<>>, Some(value), TRUE)
    /\ before' = <<>>
    /\ UNCHANGED spread_calls
    /\ UNCHANGED <<chunks, time, decay, threshold, mismatch, optimized_learning,
                   W, mas, ln_1_mius_d, caches, registry>>

(* A decay setter that stores the decay before it rejects it. *)
SetDecayThenRaise(value) ==
    /\ IF value < 0
       THEN /\ last' = Raised("decay", "ValueError", <<>>, Some(value))
            /\ UNCHANGED <<decay, ln_1_mius_d, caches>>
       ELSE /\ decay' = value
            /\ IF value >= ONE /\ optimized_learning
               THEN /\ ln_1_mius_d' = IllegalValue
                    /\ last' = Raised("decay", "ValueError", <<>>, Some(value))
                    /\ UNCHANGED caches
               ELSE /\ ln_1_mius_d' = IF value < ONE THEN Some(LnMilli(ONE - value))
                                                      ELSE ln_1_mius_d
                    /\ expt_cache' = <<>>
                    /\ ln_cache' = <<>>
                    /\ last' = Returned("decay", <<>>, Some(value), TRUE)
    /\ before' = <<>>
    /\ UNCHANGED spread_calls
    /\ UNCHANGED <<chunks, time, noise, temperature_param, temperature, threshold,
                   mismatch, optimized_learning, W, mas, registry>>

(* decay setter, as the source has it *)
set_decay(value) ==
    /\ IF value < 0
       THEN /\ last' = Raised("decay", "ValueError", <<>>, Some(value))
            /\ UNCHANGED <<decay, ln_1_mius_d, caches, registry>>
       ELSE IF value >= ONE /\ optimized_learning
       THEN /\ ln_1_mius_d' = IllegalValue
            /\ last' = Raised("decay", "ValueError", <<>>, Some(value))
            /\ UNCHANGED <<decay, caches>>
       ELSE /\ ln_1_mius_d' = IF value < ONE THEN Some(LnMilli(ONE - value))
                                              ELSE ln_1_mius_d
            /\ expt_cache' = <<>>
            /\ ln_cache' = <<>>
            /\ decay' = value
            /\ last' = Returned("decay", <<>>, Some(value), TRUE)
    /\ before' = <<>>
    /\ UNCHANGED spread_calls
    /\ UNCHANGED <<chunks, time, noise, temperature_param, temperature, threshold,
                   mismatch, optimized_learning, W, mas, registry>>

(* temperature setter: value is None or a number *)
set_temperature(value) ==
    /\ LET t == validate_temperature(value, noise)
       IN  IF t = None
           THEN /\ last' = Raised("temperature", "ValueError", <<>>, value)
                /\ UNCHANGED <<temperature_param, temperature>>
           ELSE /\ temperature_param' = value
                /\ temperature' = t[1]
                /\ last' = Returned("temperature", <<>>, value, TRUE)
    /\ before' = <<>>
    /\ UNCHANGED spread_calls
    /\ UNCHANGED <<chunks, time, noise, decay, threshold, mismatch,
                   optimized_learning, W, mas, ln_1_mius_d, caches, registry>>

(* threshold setter: None is stored as -sys.float_info.max *)
set_threshold(value) ==
    /\ threshold' = IF value = None THEN 0 - FLOAT_MAX ELSE value[1]
    /\ last' = Returned("threshold", <<>>, value, TRUE)
    /\ before' = <<>>
    /\ UNCHANGED spread_calls
    /\ UNCHANGED <<chunks, time, noise, decay, temperature_param, temperature,
                   mismatch, optimized_learning, W, mas, ln_1_mius_d, caches, registry>>

(* mismatch setter *)
set_mismatch(value) ==
    /\ IF value # None /\ value[1] < 0
       THEN /\ last' = Raised("mismatch", "ValueError", <<>>, value)
            /\ UNCHANGED mismatch
       ELSE /\ mismatch' = value
            /\ last' = Returned("mismatch", <<>>, value, TRUE)
    /\ before' = <<>>
    /\ UNCHANGED spread_calls
    /\ UNCHANGED <<chunks, time, noise, decay, temperature_param, temperature,
                   threshold, optimized_learning, W, mas, ln_1_mius_d, caches, registry>>

(* W setter *)
set_W(value) ==
    /\ IF value # None /\ value[1] < 0
       THEN /\ last' = Raised("W", "ValueError", <<>>, value)
            /\ UNCHANGED W
       ELSE /\ W' = value
            /\ last' = Returned("W", <<>>, value, TRUE)
    /\ before' = <<>>
    /\ UNCHANGED spread_calls
    /\ UNCHANGED <<chunks, time, noise, decay, temperature_param, temperature,
                   threshold, mismatch, optimized_learning, mas, ln_1_mius_d, caches, registry>>

(* mas setter *)
set_mas(value) ==
    /\ IF value # None /\ value[1] < 0
       THEN /\ last' = Raised("mas", "ValueError", <<>>, value)
            /\ UNCHANGED mas
       ELSE /\ mas' = value
            /\ last' = Returned("mas", <<>>, value, TRUE)
    /\ before' = <<>>
    /\ UNCHANGED spread_calls
    /\ UNCHANGED <<chunks, time, noise, decay, temperature_param, temperature,
                   threshold, mismatch, optimized_learning, W, ln_1_mius_d, caches, registry>>

(* The class attributes of Memory as the module defines them *)
DefaultRegistry ==
    [similarity_functions |-> [n \in Names |-> "none"],
     use_actr_similarity |-> FALSE,
     minimum_similarity |-> 0,
     maximum_similarity |-> ONE,
     use_actr_matching_source2chunk |-> TRUE,
     matching_source2chunk_function |-> "none",
     use_actr_sji |-> TRUE,
     sji_function |-> "none"]

(* Memory.__init__ returns: the arguments pass every setter.  A decay >= 1 *)
(* does not: the decay setter reads _optimized_learning before reset has   *)
(* set it.                                                                 *)
Constructible(n, d, temp, mm, w, m) ==
    /\ n >= 0
    /\ d >= 0 /\ d < ONE
    /\ validate_temperature(temp, n) # None
    /\ IF mm = None THEN TRUE ELSE mm[1] >= 0
    /\ IF w = None THEN TRUE ELSE w[1] >= 0
    /\ IF m = None THEN TRUE ELSE m[1] >= 0

(* The state Memory.__init__ leaves *)
Constructed(n, d, temp, thr, mm, ol, w, m) ==
    /\ Constructible(n, d, temp, mm, w, m)
    /\ noise = n
    /\ decay = d
    /\ ln_1_mius_d = Some(LnMilli(ONE - d))
    /\ expt_cache = <<>>
    /\ ln_cache = <<>>
    /\ temperature_param = temp
    /\ temperature = validate_temperature(temp, n)[1]
    /\ threshold = IF thr = None THEN 0 - FLOAT_MAX ELSE thr[1]
    /\ mismatch = mm
    /\ W = w
    /\ mas = m
    /\ chunks = <<>>
    /\ time = 0
    /\ optimized_learning = ol
    /\ registry = DefaultRegistry
    /\ last = Returned("init", <<>>, None, TRUE)
    /\ before = <<>>
    /\ spread_calls = 0
----------------------------------------------------------------------------
(* Activation *)

Result(err, val, cache) == [err |-> err, val |-> val, cache |-> cache]

(* Chunk._cached_expt: math.pow raises inside the try, which catches only  *)
(* IndexError and TypeError                                                *)
cached_expt(cache, base) ==
    IF base >= TRANSCENDENTAL_CACHE_SIZE
    THEN Result(PowRaises(base, decay), Pow(base, decay), cache)
    ELSE IF base \in DOMAIN cache THEN Result(FALSE, cache[base], cache)
    ELSE IF PowRaises(base, decay) THEN Result(TRUE, 0, cache)
    ELSE LET Store(value) == Result(FALSE, value, (base :> value) @@ cache)
         IN  Store(Pow(base, decay))

(* Chunk._cached_ln: math.log raises for an argument <= 0 *)
cached_ln(cache, arg) ==
    IF arg >= TRANSCENDENTAL_CACHE_SIZE
    THEN Result(FALSE, LnMilli(arg * ONE), cache)
    ELSE IF arg \in DOMAIN cache THEN Result(FALSE, cache[arg], cache)
    ELSE IF arg <= 0 THEN Result(TRUE, 0, cache)
    ELSE LET Store(value) == Result(FALSE, value, (arg :> value) @@ cache)
         IN  Store(LnMilli(arg * ONE))

(* sum(self._cached_expt(time - ref) for ref in references) *)
RECURSIVE SumExpt(_, _, _)
SumExpt(refs, cache, total) ==
    LET Add(r) == IF r.err THEN r
                  ELSE SumExpt(Tail(refs), r.cache, total + r.val)
    IN  IF refs = <<>> THEN Result(FALSE, total, cache)
        ELSE Add(cached_expt(cache, time - Head(refs)))

Computed(err, val, c, expt, ln) ==
    [err |-> err, val |-> val, chunk |-> c, expt |-> expt, ln |-> ln]

(* The except clause of _get_base_activation *)
ValueErrorAs(c) == IF time <= c.creation THEN "RuntimeError" ELSE "ValueError"

(* The optimized learning branch of Chunk._get_base_activation *)
OptimizedBase(c, expt, ln) ==
    LET Second(r1, r2) ==
            IF r2.err THEN Computed(ValueErrorAs(c), 0, c, expt, r2.cache)
            ELSE Computed("none",
                          r1.val - ln_1_mius_d[1] - (decay * r2.val) \div ONE,
                          c, expt, r2.cache)
        First(r1) ==
            IF r1.err THEN Computed(ValueErrorAs(c), 0, c, expt, ln)
            ELSE IF ln_1_mius_d = IllegalValue
            THEN Computed("TypeError", 0, c, expt, r1.cache)
            ELSE Second(r1, cached_ln(r1.cache, time - c.creation))
    IN  First(cached_ln(ln, c.references))

(* The reference list branch of Chunk._get_base_activation *)
ListBase(c, expt, ln) ==
    LET Log(r) ==
            IF r.err \/ r.val <= 0 THEN Computed(ValueErrorAs(c), 0, c, r.cache, ln)
            ELSE Computed("none", LnMilli(r.val), c, r.cache, ln)
    IN  Log(SumExpt(c.references, expt, 0))

(* Chunk._get_base_activation: the memo is keyed by the time alone *)
get_base_activation(c, expt, ln) ==
    LET Memo(r) ==
            IF r.err # "none" THEN r
            ELSE [r EXCEPT !.chunk = [c EXCEPT !.base_activation = Some(r.val),
                                               !.base_activation_time = Some(time)]]
    IN  IF c.base_activation_time # Some(time)
        THEN Memo(IF optimized_learning THEN OptimizedBase(c, expt, ln)
                  ELSE ListBase(c, expt, ln))
        ELSE Computed("none", c.base_activation[1], c, expt, ln)

(* The draws of math.log((1 - p) / p): p = 0.731, 0.269 *)
LogisticDraws == {-1000, 1000}

(* Memory._make_noise, given the draw *)
make_noise(draw) == IF noise = 0 THEN 0 ELSE (noise * draw) \div ONE

(* Chunk._activation: without the mismatch component *)
activation(c, draw, expt, ln) ==
    LET spreading_activation == IF Truthy(c.spreading_activation)
                                THEN c.spreading_activation[1] ELSE 0
        Total(r) ==
            IF r.err # "none" THEN r
            ELSE [r EXCEPT !.val = r.val + spreading_activation + c.importance
                                         + make_noise(draw)]
    IN  Total(get_base_activation(c, expt, ln))

(* What a registered similarity function returns for unequal values *)
SimilarityFunctions == {"none", "half", "negative", "raises"}

(* Memory._similarity; a function that raises is not caught *)
similarity(x, y, attribute) ==
    LET fn == registry.similarity_functions[attribute]
        raw == IF fn = "half" THEN 500 ELSE 0 - 500
        clamped == IF raw < registry.minimum_similarity
                   THEN registry.minimum_similarity
                   ELSE IF raw > registry.maximum_similarity
                   THEN registry.maximum_similarity
                   ELSE raw
    IN  IF x = y THEN [err |-> FALSE, val |-> 0]
        ELSE IF fn = "none" THEN [err |-> FALSE, val |-> 0 - ONE]
        ELSE IF fn = "raises" THEN [err |-> TRUE, val |-> 0]
        ELSE [err |-> FALSE,
              val |-> IF registry.use_actr_similarity THEN clamped ELSE clamped - ONE]

(* sum(similarity(c, chunk[s], s) for s, c in conditions.items()) *)
RECURSIVE SumSimilarity(_, _)
SumSimilarity(c, kw) ==
    LET Add(r, rest) == IF r.err \/ rest.err THEN [err |-> TRUE, val |-> 0]
                        ELSE [err |-> FALSE, val |-> r.val + rest.val]
    IN  IF kw = <<>> THEN [err |-> FALSE, val |-> 0]
        ELSE Add(similarity(Head(kw)[2], c.content[Head(kw)[1]], Head(kw)[1]),
                 SumSimilarity(c, Tail(kw)))

(* conditions.keys() <= chunk.keys() *)
KeysSubset(kw, c) == KwKeys(kw) \subseteq DOMAIN c.content

(* all(chunk[a] == v for a, v in conditions.items()) *)
ValuesEqual(kw, c) == \A i \in DOMAIN kw : c.content[kw[i][1]] = kw[i][2]
----------------------------------------------------------------------------
(* retrieve *)

(* The state a scan of the store threads through: the exception raised so  *)
(* far, the chunks and caches as updated, and one record per chunk whose    *)
(* activation was asked for.                                               *)
Scan(err, store, expt, ln, evals) ==
    [err |-> err, store |-> store, expt |-> expt, ln |-> ln, evals |-> evals]

Eval(i, total, err) == [idx |-> i, total |-> total, err |-> err]

(* The test of _exact_match that a chunk matches the conditions *)
ExactMatches(kw, c) == KeysSubset(kw, c) /\ ValuesEqual(kw, c)

(* The loop of _exact_match from chunk i on; ns are the noise draws *)
RECURSIVE ExactScan(_, _, _, _)
ExactScan(i, kw, ns, acc) ==
    LET Step(r) ==
            ExactScan(i + 1, kw, ns,
                      Scan(r.err, [acc.store EXCEPT ![i] = r.chunk], r.expt, r.ln,
                           Append(acc.evals, Eval(i, r.val, r.err))))
    IN  IF i > Len(acc.store) \/ acc.err # "none" THEN acc
        ELSE IF ~ExactMatches(kw, acc.store[i]) THEN ExactScan(i + 1, kw, ns, acc)
        ELSE Step(activation(acc.store[i], ns[i], acc.expt, acc.ln))

(* A comparison that keeps the first of two equal activations. *)
ReplacesBestStrict(a, best_activation) == a > best_activation

(* if a >= best_activation: in _exact_match *)
ReplacesBest(a, best_activation) == a >= best_activation

(* best_chunk of _exact_match over the activations computed *)
RECURSIVE ExactBest(_, _, _)
ExactBest(evals, best_chunk, best_activation) ==
    IF evals = <<>> THEN best_chunk
    ELSE IF ReplacesBest(Head(evals).total, best_activation)
    THEN ExactBest(Tail(evals), Head(evals).idx, Head(evals).total)
    ELSE ExactBest(Tail(evals), best_chunk, best_activation)

(* A predicate that asks for equal values whatever the mismatch is. *)
QualifiesOnlyEqual(kw, c) == KeysSubset(kw, c) /\ ValuesEqual(kw, c)

(* The chunks _Activations.__next__ yields *)
Qualifies(kw, c) == KeysSubset(kw, c) /\ (mismatch = None => ValuesEqual(kw, c))

(* (chunk, total) as _Activations.__next__ computes it for a chunk *)
Yield(c, kw, draw, expt, ln) ==
    LET Penalised(r, sim) ==
            IF r.err # "none" \/ mismatch = None THEN r
            ELSE IF sim.err THEN [r EXCEPT !.err = "Exception"]
            ELSE [r EXCEPT !.val = r.val + (mismatch[1] * sim.val) \div ONE]
    IN  Penalised(activation(c, draw, expt, ln), SumSimilarity(c, kw))

(* The iteration of _Activations from chunk i on *)
RECURSIVE ActivationsScan(_, _, _, _)
ActivationsScan(i, kw, ns, acc) ==
    LET Step(r) ==
            ActivationsScan(i + 1, kw, ns,
                            Scan(r.err, [acc.store EXCEPT ![i] = r.chunk], r.expt, r.ln,
                                 Append(acc.evals, Eval(i, r.val, r.err))))
    IN  IF i > Len(acc.store) \/ acc.err # "none" THEN acc
        ELSE IF ~Qualifies(kw, acc.store[i]) THEN ActivationsScan(i + 1, kw, ns, acc)
        ELSE Step(Yield(acc.store[i], kw, ns[i], acc.expt, acc.ln))

(* A comparison that leaves out a total equal to the threshold. *)
PartialReplacesStrict(a, best_activation) == a > threshold

(* if activation >= self._threshold: in _partial_match *)
PartialReplaces(a, best_activation) == a >= threshold

(* best_chunk of _partial_match over the totals computed *)
RECURSIVE PartialBest(_, _, _)
PartialBest(evals, best_chunk, best_activation) ==
    IF evals = <<>> THEN best_chunk
    ELSE IF PartialReplaces(Head(evals).total, best_activation)
    THEN PartialBest(Tail(evals), Head(evals).idx, Head(evals).total)
    ELSE PartialBest(Tail(evals), best_chunk, best_activation)

NoiseDraws == [1..Len(chunks) -> IF noise = 0 THEN {0} ELSE LogisticDraws]

(* retrieve(partial, **kw) *)
retrieve(partial, kw, ns) ==
    LET start == Scan("none", chunks, expt_cache, ln_cache, <<>>)
        op == IF partial THEN "retrieve_partial" ELSE "retrieve"
        Return(r, best) ==
            /\ chunks' = r.store
            /\ expt_cache' = r.expt
            /\ ln_cache' = r.ln
            /\ last' = IF r.err # "none"
                       THEN Outcome(op, r.err, kw, None, FALSE, 0, r.evals)
                       ELSE Outcome(op, "none", kw, None, best # 0, best, r.evals)
        Pick(r) == Return(r, IF partial THEN PartialBest(r.evals, 0, threshold)
                             ELSE ExactBest(r.evals, 0, threshold))
    IN  /\ Pick(IF partial THEN ActivationsScan(1, kw, ns, start)
                ELSE ExactScan(1, kw, ns, start))
        /\ before' = <<>>
        /\ UNCHANGED spread_calls
        /\ UNCHANGED <<time, params, registry>>
----------------------------------------------------------------------------
(* blend *)

(* math.exp raises OverflowError above 709.78; below -745.13 it returns 0.0 *)
EXP_OVERFLOW == 709782

EXP_UNDERFLOW == -745133

(* The loop of blend from chunk i on; terms collects, for each chunk that  *)
(* has the outcome attribute, activation / temperature and the outcome.    *)
RECURSIVE BlendScan(_, _, _, _, _)
BlendScan(i, outcome_attribute, kw, ns, acc) ==
    LET Collect(r, has, x, err) ==
            BlendScan(i + 1, outcome_attribute, kw, ns,
                [err |-> err,
                 store |-> [acc.store EXCEPT ![i] = r.chunk],
                 expt |-> r.expt,
                 ln |-> r.ln,
                 evals |-> Append(acc.evals, Eval(i, r.val, r.err)),
                 terms |-> IF has /\ err = "none"
                           THEN Append(acc.terms,
                                       [x |-> x, v |-> r.chunk.content[outcome_attribute]])
                           ELSE acc.terms])
        Weigh(r, has, x) ==
            Collect(r, has, x,
                    IF r.err # "none" THEN r.err
                    ELSE IF has /\ x > EXP_OVERFLOW THEN "OverflowError"
                    ELSE "none")
        Step(r) == Weigh(r, outcome_attribute \in DOMAIN r.chunk.content,
                         (r.val * ONE) \div temperature)
    IN  IF i > Len(acc.store) \/ acc.err # "none" THEN acc
        ELSE IF ~Qualifies(kw, acc.store[i])
        THEN BlendScan(i + 1, outcome_attribute, kw, ns, acc)
        ELSE Step(Yield(acc.store[i], kw, ns[i], acc.expt, acc.ln))

Max(S) == CHOOSE m \in S : \A n \in S : n <= m

RECURSIVE SumOver(_, _)
SumOver(f, D) ==
    IF D = {} THEN 0
    ELSE LET d == CHOOSE e \in D : TRUE IN f[d] + SumOver(f, D \ {d})

(* weighted_outcomes / weights, None when the weights are all 0.0.  The    *)
(* weights are taken relative to the largest one, which leaves the         *)
(* quotient as it is.                                                      *)
BlendValue(terms) ==
    LET live == {k \in DOMAIN terms : terms[k].x >= EXP_UNDERFLOW}
        top  == Max({terms[k].x : k \in live})
        w    == [k \in live |-> ExpMilli(terms[k].x - top)]
        wv   == [k \in live |-> w[k] * terms[k].v]
    IN  IF live = {} THEN None
        ELSE Some((SumOver(wv, live) * ONE) \div SumOver(w, live))

(* blend(outcome_attribute, **kw) *)
blend(outcome_attribute, kw, ns) ==
    LET start == [err |-> "none", store |-> chunks, expt |-> expt_cache,
                  ln |-> ln_cache, evals |-> <<>>, terms |-> <<>>]
        Return(r, value) ==
            /\ chunks' = r.store
            /\ expt_cache' = r.expt
            /\ ln_cache' = r.ln
            /\ last' = IF r.err # "none"
                       THEN Outcome("blend", r.err, kw, None, FALSE, 0, r.evals)
                       ELSE Outcome("blend", "none", kw, value, value # None, 0, r.evals)
        Divide(r) == Return(r, IF r.err # "none" THEN None ELSE BlendValue(r.terms))
    IN  /\ Divide(BlendScan(1, outcome_attribute, kw, ns, start))
        /\ before' = <<>>
        /\ UNCHANGED spread_calls
        /\ UNCHANGED <<time, params, registry>>

----------------------------------------------------------------------------
(* spread and clear_spread *)

(* cvalue in chunk.values() *)
ValueIn(v, c) == \E n \in DOMAIN c.content : c.content[n] = v

(* Memory._actr_matching_source2chunk: one row per condition, one column   *)
(* per chunk                                                               *)
actr_matching_source2chunk(store, kw) ==
    [j \in DOMAIN kw |-> [i \in DOMAIN store |-> ValueIn(kw[j][2], store[i])]]

(* The custom function is in use and returns: it marks every cell *)
CustomMatching ==
    ~registry.use_actr_matching_source2chunk
    /\ registry.matching_source2chunk_function = "all"

(* The custom function is in use and returns: a vector of zeros *)
CustomSji == ~registry.use_actr_sji /\ registry.sji_function = "zeros"

(* Memory._matching_source2chunk: a custom function that raises (None is   *)
(* not callable) gives way to the default                                  *)
matching_source2chunk(store, kw) ==
    IF CustomMatching
    THEN [j \in DOMAIN kw |-> [i \in DOMAIN store |-> TRUE]]
    ELSE actr_matching_source2chunk(store, kw)

(* np.sum(match_matrix, axis=1): the number of True cells of row j *)
RowSum(match_matrix, j) ==
    Cardinality({i \in DOMAIN match_matrix[j] : match_matrix[j][i]})

(* Memory._actr_sji: fan = row sum + 1, sji = mas - ln(fan), per row *)
actr_sji(match_matrix) ==
    [j \in DOMAIN match_matrix |->
        mas[1] - LnMilli((RowSum(match_matrix, j) + 1) * ONE)]

(* A custom sji function that fails leaves zeros instead of the default. *)
SjiWithoutFallback(match_matrix) ==
    IF ~registry.use_actr_sji
    THEN [j \in DOMAIN match_matrix |-> 0]
    ELSE actr_sji(match_matrix)

(* Memory._sji *)
sji(match_matrix) ==
    IF CustomSji
    THEN [j \in DOMAIN match_matrix |-> 0]
    ELSE actr_sji(match_matrix)

(* Memory._compute_spreading_activation_vec:                               *)
(* np.sum(wj * sji * match_matrix.T, axis=1), one entry per chunk          *)
compute_spreading_activation_vec(store, kw) ==
    LET match_matrix == matching_source2chunk(store, kw)
        wj == W[1] \div Len(kw)
        s  == sji(match_matrix)
    IN  [i \in DOMAIN store |->
            SumOver([j \in DOMAIN kw |->
                        IF match_matrix[j][i] THEN (wj * s[j]) \div ONE ELSE 0],
                    DOMAIN kw)]

(* Chunk.spreading_activation setter *)
SetSpreading(c, value) ==
    [c EXCEPT !.spreading_activation =
        IF Truthy(value) /\ Truthy(@) THEN Some(@[1] + value[1]) ELSE value]

(* A clear_spread that stops after the first chunk. *)
ClearSpreadFirstOnly(store) ==
    [i \in DOMAIN store |-> IF i = 1 THEN SetSpreading(store[i], None) ELSE store[i]]

(* Memory.clear_spread on a store *)
ClearSpread(store) == [i \in DOMAIN store |-> SetSpreading(store[i], None)]

(* spread(auto_clear, **kw) *)
spread(auto_clear, kw) ==
    LET store1 == IF auto_clear THEN ClearSpread(chunks) ELSE chunks
        vec == compute_spreading_activation_vec(store1, kw)
    IN  /\ IF kw = <<>>
           THEN /\ last' = Raised("spread", "ValueError", kw, Some(auto_clear))
                /\ UNCHANGED <<chunks, spread_calls>>
           ELSE IF W = None \/ (mas = None /\ ~CustomSji)
           THEN /\ last' = Raised("spread", "TypeError", kw, Some(auto_clear))
                /\ chunks' = store1
                /\ spread_calls' = IF auto_clear THEN 0 ELSE spread_calls
           ELSE /\ (IF auto_clear THEN 0 ELSE spread_calls) < MaxSpreads
                /\ chunks' = [i \in DOMAIN store1 |->
                                 SetSpreading(store1[i], Some(vec[i]))]
                /\ spread_calls' = (IF auto_clear THEN 0 ELSE spread_calls) + 1
                /\ last' = Outcome("spread", "none", kw, Some(auto_clear), TRUE, 0,
                                   [i \in DOMAIN store1 |-> Eval(i, vec[i], "none")])
        /\ before' = <<>>
        /\ UNCHANGED <<time, params, caches, registry>>

(* clear_spread() *)
clear_spread ==
    /\ chunks' = ClearSpread(chunks)
    /\ last' = Returned("clear_spread", <<>>, None, TRUE)
    /\ before' = <<>>
    /\ spread_calls' = 0
    /\ UNCHANGED <<time, params, caches, registry>>
----------------------------------------------------------------------------
(* The registry of functions: class attributes of Memory, set by the       *)
(* module's functions.  A function is named by what it does when called.   *)

RegistryUnchanged ==
    /\ before' = <<>>
    /\ UNCHANGED <<chunks, time, params, caches, spread_calls>>

(* set_similarity_function(function, *slots) *)
set_similarity_function(function, slots) ==
    /\ registry' = [registry EXCEPT !.similarity_functions =
                        [n \in Names |-> IF n \in slots THEN function ELSE @[n]]]
    /\ last' = Returned("set_similarity_function", <<>>, None, TRUE)
    /\ RegistryUnchanged

(* The setter of use_actr_similarity *)
set_use_actr_similarity(value) ==
    /\ registry' = [registry EXCEPT !.use_actr_similarity = value,
                                    !.minimum_similarity = IF value THEN 0 - ONE ELSE 0,
                                    !.maximum_similarity = IF value THEN 0 ELSE ONE]
    /\ last' = Returned("use_actr_similarity", <<>>, None, TRUE)
    /\ RegistryUnchanged

(* The setter of use_actr_sji *)
set_use_actr_sji(value) ==
    /\ registry' = [registry EXCEPT !.use_actr_sji = value]
    /\ last' = Returned("use_actr_sji", <<>>, None, TRUE)
    /\ RegistryUnchanged

(* set_sji_function(function) *)
set_sji_function(function) ==
    /\ registry' = [registry EXCEPT !.sji_function = function]
    /\ last' = Returned("set_sji_function", <<>>, None, TRUE)
    /\ RegistryUnchanged

(* The setter of use_actr_matching_source2chunk *)
set_use_actr_matching_source2chunk(value) ==
    /\ registry' = [registry EXCEPT !.use_actr_matching_source2chunk = value]
    /\ last' = Returned("use_actr_matching_source2chunk", <<>>, None, TRUE)
    /\ RegistryUnchanged

(* set_matching_source2chunk_function(function) *)
set_matching_source2chunk_function(function) ==
    /\ registry' = [registry EXCEPT !.matching_source2chunk_function = function]
    /\ last' = Returned("set_matching_source2chunk_function", <<>>, None, TRUE)
    /\ RegistryUnchanged

----------------------------------------------------------------------------
(* Inputs *)

A1 == <<<<"a", 1>>>>

A2 == <<<<"a", 2>>>>

A1B2 == <<<<"a", 1>>, <<"b", 2>>>>

B2A1 == <<<<"b", 2>>, <<"a", 1>>>>

ImportanceArgs == {Some(0), None}

Importances(imp) == IF imp = None THEN ImportanceDraws ELSE {0}

DefaultMemory(ol) ==
    Constructed(DEFAULT_NOISE, DEFAULT_DECAY, None, Some(DEFAULT_THRESHOLD), None, ol,
                Some(DEFAULT_W), Some(DEFAULT_MAS))

----------------------------------------------------------------------------
(* Retrieval without noise: a memory with threshold 0, with and without a  *)
(* mismatch penalty; learn, advance, retrieve in both modes.               *)

Init ==
    \E mm \in {None, Some(ONE)} :
        Constructed(0, DEFAULT_DECAY, Some(ONE), Some(0), mm, FALSE,
                    Some(DEFAULT_W), Some(DEFAULT_MAS))

Next ==
    \/ \E imp \in ImportanceArgs : \E draw \in Importances(imp) : learn(A1, imp, draw)
    \/ learn(A1B2, Some(0), 0)
    \/ advance(1)
    \/ \E partial \in BOOLEAN, kw \in {A1, A2}, ns \in NoiseDraws :
          retrieve(partial, kw, ns)

Spec == Init /\ [][Next]_vars

----------------------------------------------------------------------------
(* Partial retrieval and blending with the default noise. *)

InitBlend ==
    \E mm \in {None, Some(ONE)} :
        Constructed(DEFAULT_NOISE, DEFAULT_DECAY, None, Some(0), mm, FALSE,
                    Some(DEFAULT_W), Some(DEFAULT_MAS))

NextBlend ==
    \/ \E kw \in {A1, A1B2} : learn(kw, Some(0), 0)
    \/ advance(1)
    \/ \E kw \in {A1, A2}, ns \in NoiseDraws : retrieve(TRUE, kw, ns)
    \/ \E ns \in NoiseDraws : blend("b", A2, ns)

SpecBlend == InitBlend /\ [][NextBlend]_vars

----------------------------------------------------------------------------
(* The store: learn, forget, advance and reset in both learning modes. *)

InitStore == \E ol \in BOOLEAN : DefaultMemory(ol)

NextStore ==
    \/ \E kw \in {<<>>, A1, A1B2, B2A1}, imp \in {Some(0), Some(ONE)} :
          learn(kw, imp, 0)
    \/ \E kw \in {<<>>, A1, A1B2, B2A1}, when \in 0..MaxTime : forget(when, kw)
    \/ \E amount \in {-1, 1} : advance(amount)
    \/ \E ol \in {None, Some(FALSE), Some(TRUE)} : reset(ol)

SpecStore == InitStore /\ [][NextStore]_vars

----------------------------------------------------------------------------
(* The parameters: assignments, accepted and rejected, around a learn, an  *)
(* advance and a retrieval.                                                *)

InitParams == \E ol \in BOOLEAN : DefaultMemory(ol)

NextParams ==
    \/ \E value \in {0 - DEFAULT_NOISE, 0} : set_noise(value)
    \/ \E value \in {0 - DEFAULT_DECAY, 0, DEFAULT_DECAY, ONE} : set_decay(value)
    \/ \E value \in {None, Some(MINIMUM_TEMPERATURE - 1)} : set_temperature(value)
    \/ \E value \in {None, Some(0 - ONE)} : set_mismatch(value)
    \/ \E value \in {None, Some(DEFAULT_THRESHOLD)} : set_threshold(value)
    \/ \E value \in {Some(DEFAULT_W), Some(0 - ONE)} : set_W(value)
    \/ \E value \in {Some(DEFAULT_MAS), Some(0 - ONE)} : set_mas(value)
    \/ learn(A1, Some(0), 0)
    \/ advance(1)
    \/ \E ns \in NoiseDraws : retrieve(FALSE, A1, ns)

SpecParams == InitParams /\ [][NextParams]_vars

----------------------------------------------------------------------------
(* Spreading: learn, spread with and without auto_clear, clear_spread. *)

InitSpread == DefaultMemory(FALSE)

NextSpread ==
    \/ \E kw \in {A1, A1B2} : learn(kw, Some(0), 0)
    \/ \E auto_clear \in BOOLEAN, kw \in {<<>>, A1, A2, B2A1} : spread(auto_clear, kw)
    \/ clear_spread

SpecSpread == InitSpread /\ [][NextSpread]_vars

----------------------------------------------------------------------------
(* Similarity functions: partial retrieval and blending with a mismatch    *)
(* penalty while functions are registered for attribute a.                 *)

InitSimilarity ==
    Constructed(0, DEFAULT_DECAY, Some(ONE), Some(DEFAULT_THRESHOLD), Some(ONE), FALSE,
                Some(DEFAULT_W), Some(DEFAULT_MAS))

NextSimilarity ==
    \/ \E function \in {"half", "raises"} : set_similarity_function(function, {"a"})
    \/ \E value \in BOOLEAN : set_use_actr_similarity(value)
    \/ learn(A1B2, Some(0), 0)
    \/ advance(1)
    \/ \E ns \in NoiseDraws : retrieve(TRUE, A2, ns)
    \/ \E ns \in NoiseDraws : blend("b", A2, ns)

SpecSimilarity == InitSimilarity /\ [][NextSimilarity]_vars

----------------------------------------------------------------------------
(* The spreading hooks: spread while custom matching and sji functions are *)
(* registered and switched on and off.                                     *)

InitHooks == DefaultMemory(FALSE)

NextHooks ==
    \/ \E value \in BOOLEAN : set_use_actr_matching_source2chunk(value)
    \/ \E function \in {"raises", "all"} : set_matching_source2chunk_function(function)
    \/ \E value \in BOOLEAN : set_use_actr_sji(value)
    \/ \E function \in {"raises", "zeros"} : set_sji_function(function)
    \/ \E kw \in {A1, A1B2} : learn(kw, Some(0), 0)
    \/ \E kw \in {A1, A2} : spread(TRUE, kw)

SpecHooks == InitHooks /\ [][NextHooks]_vars

----------------------------------------------------------------------------
(* The learning mode: decay assignments and resets, accepted and rejected, *)
(* around learn and advance.                                               *)

InitMode == \E ol \in BOOLEAN : DefaultMemory(ol)

NextMode ==
    \/ \E value \in {0 - DEFAULT_DECAY, DEFAULT_DECAY, ONE, ONE + DEFAULT_DECAY} :
          set_decay(value)
    \/ \E ol \in {None, Some(FALSE), Some(TRUE)} : reset(ol)
    \/ learn(A1, Some(0), 0)
    \/ advance(1)

SpecMode == InitMode /\ [][NextMode]_vars

----------------------------------------------------------------------------
(* The time: every operation of a Memory around advance and reset. *)

InitTime ==
    Constructed(0, DEFAULT_DECAY, Some(ONE), Some(0), None, FALSE,
                Some(DEFAULT_W), Some(DEFAULT_MAS))

NextTime ==
    \/ learn(A1, Some(0), 0)
    \/ forget(0, A1)
    \/ \E amount \in {-1, 1} : advance(amount)
    \/ reset(None)
    \/ \E value \in {0 - DEFAULT_DECAY, DEFAULT_DECAY} : set_decay(value)
    \/ \E value \in {None, Some(0 - ONE)} : set_mismatch(value)
    \/ \E ns \in NoiseDraws : retrieve(FALSE, A1, ns)
    \/ \E ns \in NoiseDraws : blend("a", A1, ns)
    \/ spread(TRUE, A1)
    \/ clear_spread

SpecTime == InitTime /\ [][NextTime]_vars

----------------------------------------------------------------------------
(* Noise and temperature: every memory the constructor returns for these   *)
(* arguments, then noise and temperature assignments around the floor,     *)
(* with learning and the passing of time in between.                       *)

NoiseArgs == {0 - DEFAULT_NOISE, 0, MINIMUM_TEMPERATURE - 3, MINIMUM_TEMPERATURE - 2,
              DEFAULT_NOISE, 2 * DEFAULT_NOISE}

TemperatureArgs == {None, Some(MINIMUM_TEMPERATURE - 1), Some(MINIMUM_TEMPERATURE),
                    Some(DEFAULT_DECAY), Some(ONE)}

InitTemperature ==
    \E n \in NoiseArgs, temp \in TemperatureArgs :
        Constructed(n, DEFAULT_DECAY, temp, Some(DEFAULT_THRESHOLD), None, FALSE,
                    Some(DEFAULT_W), Some(DEFAULT_MAS))

NextTemperature ==
    \/ \E value \in NoiseArgs : set_noise(value)
    \/ \E value \in TemperatureArgs : set_temperature(value)
    \/ learn(A1, Some(0), 0)
    \/ advance(1)

SpecTemperature == InitTemperature /\ [][NextTemperature]_vars
----------------------------------------------------------------------------
(* The claims *)

(* The last operation was a retrieval that returned *)
Retrieved == last.op \in {"retrieve", "retrieve_partial"} /\ last.err = "none"

(* The activations the last operation computed that reach the threshold *)
Reaching == {k \in DOMAIN last.evals : last.evals[k].total >= threshold}

Evaluated == {last.evals[k].idx : k \in DOMAIN last.evals}

(* The activation the last operation computed for chunk i *)
TotalOf(i) == last.evals[CHOOSE k \in DOMAIN last.evals : last.evals[k].idx = i].total

(* The cue's names are among the chunk's names *)
HasCueNames(c, cue) == \A k \in DOMAIN cue : cue[k][1] \in DOMAIN c.content

(* The chunk has the cue's names with the cue's values *)
HasCueValues(c, cue) ==
    \A k \in DOMAIN cue : cue[k][1] \in DOMAIN c.content /\ c.content[cue[k][1]] = cue[k][2]

(* C1: with a mismatch penalty set, retrieve(partial=True) returns a       *)
(* qualifying chunk whose total is the maximum among the totals that reach *)
(* the threshold, and None when no total reaches it.                       *)
PartialRetrievesMaximum ==
    (last.op = "retrieve_partial" /\ last.err = "none" /\ mismatch # None) =>
        IF Reaching = {} THEN last.found = 0
        ELSE \E k \in Reaching :
                /\ last.evals[k].idx = last.found
                /\ \A j \in Reaching : last.evals[j].total <= last.evals[k].total

(* The accumulator read as a number: unset counts as 0 *)
Accumulated(c) == IF c.spreading_activation = None THEN 0 ELSE c.spreading_activation[1]

(* C2: a spread call without auto_clear adds its contribution for a chunk  *)
(* to what the chunk had accumulated, a contribution of 0 included.        *)
SpreadAddsContribution ==
    [][(last'.op = "spread" /\ last'.err = "none" /\ last'.arg = Some(FALSE)) =>
          \A i \in DOMAIN chunks :
              chunks'[i].spreading_activation =
                  Some(Accumulated(chunks[i]) + last'.evals[i].total)]_vars

(* C3: the store holds one chunk per attribute set; a learn returns True   *)
(* and adds a chunk with one reference when no chunk had these attributes, *)
(* and otherwise returns False and adds one reference to the chunk that    *)
(* has them, whatever the order of the keywords.                           *)
LearnBySignature ==
    /\ \A i, j \in DOMAIN chunks : i # j => chunks[i].content # chunks[j].content
    /\ (last.op = "learn" /\ last.err = "none") =>
          LET old == {i \in DOMAIN before : before[i].content = KwDict(last.kw)}
              n   == Len(chunks)
          IN  /\ last.ret = (old = {})
              /\ IF old = {}
                 THEN /\ n = Len(before) + 1
                      /\ chunks[n].content = KwDict(last.kw)
                      /\ RefCount(chunks[n]) = 1
                 ELSE /\ n = Len(before)
                      /\ \A i \in old :
                            /\ chunks[i].content = before[i].content
                            /\ RefCount(chunks[i]) = RefCount(before[i]) + 1

(* C3: a learn with the keywords in the other order reinforced the chunk *)
LearnReordered ==
    /\ last.op = "learn" /\ last.err = "none" /\ ~last.ret
    /\ last.kw = B2A1
    /\ \E i \in DOMAIN chunks : chunks[i].sig = A1B2 /\ RefCount(chunks[i]) = 2

(* The store holds no learn of these attributes at that time: no chunk has *)
(* them, or the chunk that has them was not reinforced then (under         *)
(* optimized learning: the time is before its creation or in the future).  *)
NotRecorded(store, kw, when) ==
    \A i \in DOMAIN store :
        store[i].content = KwDict(kw) =>
            IF optimized_learning THEN when < store[i].creation \/ when > time
            ELSE ~InList(store[i].references, when)

(* C4: a forget of a learn the store does not record returns False and     *)
(* leaves the store as it is, in both learning modes.                      *)
ForgetUnrecordedIsNoop ==
    [][(last'.op = "forget" /\ last'.err = "none"
        /\ NotRecorded(chunks, last'.kw, last'.arg[1])) =>
          (~last'.ret /\ chunks' = chunks)]_vars

(* What the claim compares of a store: per chunk its signature, its        *)
(* reference history or count, and its importance                          *)
StoreView(store) ==
    {<<store[i].sig, store[i].references, store[i].importance>> : i \in DOMAIN store}

(* C5: a forget at the current time of the attributes just learned returns *)
(* True and restores the signatures, reference histories and importances   *)
(* the store had before that learn.                                        *)
ForgetUndoesLearn ==
    [][(last.op = "learn" /\ last.err = "none"
        /\ last'.op = "forget" /\ last'.err = "none"
        /\ last'.arg = Some(time) /\ Signature(last'.kw) = Signature(last.kw)) =>
          (last'.ret /\ StoreView(chunks') = StoreView(before))]_vars

ExactTieFirstWins ==
    (last.op = "retrieve" /\ last.err = "none" /\ last.found # 0) =>
        \A k \in DOMAIN last.evals :
            last.evals[k].total = TotalOf(last.found) => last.evals[k].idx >= last.found

(* C7 as amended: exact retrieval returns a chunk of the highest           *)
(* activation, and among those with that activation the last in the        *)
(* store's order: a later chunk with an equal activation replaces the best. *)
ExactTieLastWins ==
    (last.op = "retrieve" /\ last.err = "none" /\ last.found # 0) =>
        \A k \in DOMAIN last.evals :
            /\ last.evals[k].total <= TotalOf(last.found)
            /\ last.evals[k].total = TotalOf(last.found) => last.evals[k].idx <= last.found

(* C7: an exact retrieval met two chunks with the highest activation *)
ExactTie ==
    /\ last.op = "retrieve" /\ last.err = "none" /\ last.found # 0
    /\ \E k \in DOMAIN last.evals :
          /\ last.evals[k].idx # last.found
          /\ last.evals[k].total = TotalOf(last.found)

(* C8 as stated: partial retrieval and blend consider the chunks that have *)
(* the cue's names, whatever their values and whatever the mismatch is.    *)
QualifiesWhateverMismatch ==
    (last.op \in {"retrieve_partial", "blend"} /\ last.err = "none") =>
        Evaluated = {i \in DOMAIN chunks : HasCueNames(chunks[i], last.kw)}

(* C8 as amended: with a mismatch penalty set they consider the chunks     *)
(* that have the cue's names, whatever their values; with mismatch None    *)
(* they consider only those whose values equal the cue's.                  *)
QualifiesByMismatch ==
    (last.op \in {"retrieve_partial", "blend"} /\ last.err = "none") =>
        Evaluated = {i \in DOMAIN chunks :
                        IF mismatch = None THEN HasCueValues(chunks[i], last.kw)
                        ELSE HasCueNames(chunks[i], last.kw)}

(* C8: a blend considered a chunk whose value differs from the cue's *)
BlendConsideredUnequal ==
    /\ last.op = "blend" /\ last.err = "none"
    /\ \E i \in Evaluated : ~HasCueValues(chunks[i], last.kw)

(* C9: an assignment that raises leaves the memory as it was: the chunks,  *)
(* the time, the parameters with the derived temperature and ln(1-decay),  *)
(* and the caches.                                                         *)
RejectedAssignmentKeepsMemory ==
    [][(last'.op \in {"noise", "decay", "temperature", "mismatch"}
        /\ last'.err # "none") => memory' = memory]_vars

(* C10: an activation asked for while the time is at or before the chunk's *)
(* creation raises the RuntimeError, in both learning modes and for every  *)
(* decay.                                                                  *)
ActivationAtCreationRaises ==
    last.op \in {"retrieve", "retrieve_partial", "blend"} =>
        \A k \in DOMAIN last.evals :
            time <= chunks[last.evals[k].idx].creation =>
                last.evals[k].err = "RuntimeError"

(* C11: a partial retrieval or a blend never ends with the exception of a  *)
(* registered similarity function: the failure is caught and the call      *)
(* completes.                                                              *)
SimilarityFailureIsCaught ==
    last.op \in {"retrieve_partial", "blend"} => last.err # "Exception"

(* A hook is in use and fails when called: no function is registered, or   *)
(* the registered one raises                                               *)
HookFails(use_actr, function) == ~use_actr /\ function \in {"none", "raises"}

(* The cue's value of slot j occurs among the values of chunk i, or the    *)
(* custom matching function, in use and returning, says so                 *)
ExpectedMatch(j, i) ==
    IF ~registry.use_actr_matching_source2chunk
       /\ ~HookFails(FALSE, registry.matching_source2chunk_function)
    THEN TRUE
    ELSE \E n \in DOMAIN chunks[i].content : chunks[i].content[n] = last.kw[j][2]

(* mas - ln(fan) of slot j by the default, or what the custom sji          *)
(* function, in use and returning, gives                                   *)
ExpectedSji(j) ==
    IF ~registry.use_actr_sji /\ ~HookFails(FALSE, registry.sji_function)
    THEN 0
    ELSE mas[1] - LnMilli((1 + Cardinality({i \in DOMAIN chunks : ExpectedMatch(j, i)}))
                          * ONE)

ExpectedContribution(i) ==
    SumOver([j \in DOMAIN last.kw |->
                IF ExpectedMatch(j, i)
                THEN ((W[1] \div Len(last.kw)) * ExpectedSji(j)) \div ONE
                ELSE 0],
            DOMAIN last.kw)

(* C12: a spread made while a custom matching or sji function is in use    *)
(* and fails completes, and every chunk's accumulator is what the default  *)
(* in place of the failing function gives for the call.                    *)
SpreadFallsBack ==
    (/\ last.op = "spread"
     /\ \/ HookFails(registry.use_actr_matching_source2chunk,
                     registry.matching_source2chunk_function)
        \/ HookFails(registry.use_actr_sji, registry.sji_function)) =>
        /\ last.err = "none"
        /\ \A i \in DOMAIN chunks :
              /\ last.evals[i].total = ExpectedContribution(i)
              /\ chunks[i].spreading_activation = Some(ExpectedContribution(i))

(* C12: a spread completed while both custom functions are in use and      *)
(* raise, and a chunk received a contribution                              *)
SpreadFellBack ==
    /\ last.op = "spread" /\ last.err = "none"
    /\ ~registry.use_actr_matching_source2chunk
    /\ registry.matching_source2chunk_function = "raises"
    /\ ~registry.use_actr_sji
    /\ registry.sji_function = "raises"
    /\ \E i \in DOMAIN chunks : chunks[i].spreading_activation[1] > 0

(* C13: reset raises exactly when it is asked to enable optimized learning *)
(* while the decay is >= 1, and then leaves the chunks, the time and the   *)
(* flag; otherwise it empties the store, sets the time to 0, sets the flag *)
(* to the argument when one is given, and leaves the parameters.           *)
ResetFrame ==
    [][last'.op = "reset" =>
          /\ (last'.err # "none") = (last'.arg = Some(TRUE) /\ decay >= ONE)
          /\ <<noise, decay, temperature_param, temperature, threshold, mismatch, W, mas>>'
                = <<noise, decay, temperature_param, temperature, threshold, mismatch, W, mas>>
          /\ IF last'.err = "none"
             THEN /\ chunks' = <<>>
                  /\ time' = 0
                  /\ optimized_learning' = IF last'.arg = None THEN optimized_learning
                                            ELSE last'.arg[1]
             ELSE /\ chunks' = chunks
                  /\ time' = time
                  /\ optimized_learning' = optimized_learning]_vars

(* C13: a reset to optimized learning was rejected with a chunk in the     *)
(* store and the time advanced                                             *)
ResetRejected ==
    /\ last.op = "reset" /\ last.err = "RuntimeError"
    /\ chunks # <<>>
    /\ time > 0

(* C14: optimized learning implies decay < 1 in every state, and the flag  *)
(* changes only in a reset that returns.                                   *)
OptimizedImpliesDecayBelowOne ==
    [][/\ optimized_learning => decay < ONE
       /\ optimized_learning' => decay' < ONE
       /\ optimized_learning' # optimized_learning =>
             (last'.op = "reset" /\ last'.err = "none")]_vars

(* C14: a decay >= 1 was rejected under optimized learning *)
DecayRejectedWhenOptimized ==
    /\ optimized_learning
    /\ last.op = "decay" /\ last.err = "ValueError"
    /\ last.arg[1] >= ONE

(* An advance by a negative amount raises ValueError and leaves the time *)
NegativeAdvanceRejected ==
    (last'.op = "advance" /\ last'.arg[1] < 0) =>
        (last'.err = "ValueError" /\ time' = time)

(* C15 as stated: the time is never negative, no operation lowers it, only *)
(* an advance by a non-negative amount changes it, and an advance by a     *)
(* negative amount raises ValueError and leaves it.                        *)
TimeNeverLowered ==
    [][/\ time >= 0 /\ time' >= time
       /\ time' # time => (/\ last'.op = "advance" /\ last'.err = "none"
                           /\ last'.arg[1] >= 0
                           /\ time' = time + last'.arg[1])
       /\ NegativeAdvanceRejected]_vars

(* C15 as amended: the time is never negative, only a reset lowers it, to  *)
(* 0, only an advance by a non-negative amount changes it otherwise, and   *)
(* an advance by a negative amount raises ValueError and leaves it.        *)
TimeLoweredOnlyByReset ==
    [][/\ time >= 0 /\ time' >= 0
       /\ time' # time =>
             \/ /\ last'.op = "advance" /\ last'.err = "none"
                /\ last'.arg[1] >= 0
                /\ time' = time + last'.arg[1]
             \/ /\ last'.op = "reset" /\ last'.err = "none"
                /\ time' = 0
       /\ NegativeAdvanceRejected]_vars

(* C15: an advance by a negative amount was rejected after the time had    *)
(* advanced                                                                *)
AdvanceRejected ==
    /\ last.op = "advance" /\ last.err = "ValueError"
    /\ time > 0

(* A store without the accumulators *)
WithoutSpreading(store) ==
    [i \in DOMAIN store |-> [store[i] EXCEPT !.spreading_activation = None]]

(* spread and clear_spread change nothing but the accumulators, and        *)
(* clear_spread leaves every accumulator unset                             *)
SpreadTouchesOnlyAccumulators ==
    /\ last'.op \in {"spread", "clear_spread"} =>
          /\ WithoutSpreading(chunks') = WithoutSpreading(chunks)
          /\ <<time, params, caches>>' = <<time, params, caches>>
    /\ last'.op = "clear_spread" => chunks' = WithoutSpreading(chunks)

(* The accumulators clear_spread followed by the same spread leaves, for the *)
(* contributions the call computed; without attributes spread raises       *)
ClearThenSpread ==
    [i \in DOMAIN chunks |->
        IF last'.err = "none"
        THEN SetSpreading(SetSpreading(chunks[i], None), Some(last'.evals[i].total))
        ELSE SetSpreading(chunks[i], None)]

(* C16 as stated: spread and clear_spread change only the accumulators,    *)
(* clear_spread unsets them all, and every spread(auto_clear=True) leaves  *)
(* the accumulators clear_spread followed by the same spread leaves.       *)
SpreadRoundTrip ==
    [][/\ SpreadTouchesOnlyAccumulators
       /\ (last'.op = "spread" /\ last'.arg = Some(TRUE)) =>
             chunks' = ClearThenSpread]_vars

(* C16 as amended: the same, for a spread(auto_clear=True) with at least   *)
(* one attribute; without attributes it raises before it clears.           *)
SpreadRoundTripWithCue ==
    [][/\ SpreadTouchesOnlyAccumulators
       /\ (last'.op = "spread" /\ last'.arg = Some(TRUE)) =>
             IF last'.kw # <<>> THEN chunks' = ClearThenSpread
             ELSE last'.err = "ValueError" /\ chunks' = chunks]_vars

(* C16: a clear_spread left two chunks without accumulators *)
SpreadCleared ==
    /\ last.op = "clear_spread"
    /\ Len(chunks) = 2
    /\ \A i \in DOMAIN chunks : chunks[i].spreading_activation = None

(* The base-level formula has a value for the chunk now: no reference at   *)
(* the current time under a decay > 0 (reference list), the time after the *)
(* creation and decay < 1 (optimized learning)                             *)
FormulaDefined(c) ==
    IF optimized_learning
    THEN c.references > 0 /\ time > c.creation /\ decay < ONE
    ELSE /\ c.references # <<>>
         /\ \A k \in DOMAIN c.references : ~PowRaises(time - c.references[k], decay)

(* The base-level formula for the chunk's references, the time and the     *)
(* decay as they are now                                                   *)
FormulaBase(c) ==
    IF optimized_learning
    THEN LnMilli(c.references * ONE) - LnMilli(ONE - decay)
         - (decay * LnMilli((time - c.creation) * ONE)) \div ONE
    ELSE LnMilli(SumOver([k \in DOMAIN c.references |->
                             Pow(time - c.references[k], decay)],
                         DOMAIN c.references))

(* C17: the base-level term a retrieval or a blend that returns used for a *)
(* chunk is the one the formula gives for the chunk's references, the time *)
(* and the decay at the call.                                              *)
BaseActivationNeverStale ==
    (last.op \in {"retrieve", "retrieve_partial", "blend"} /\ last.err = "none") =>
        \A k \in DOMAIN last.evals :
            /\ FormulaDefined(chunks[last.evals[k].idx])
            /\ chunks[last.evals[k].idx].base_activation
                  = Some(FormulaBase(chunks[last.evals[k].idx]))

(* The cue slots of the last call whose value occurs among the values of   *)
(* chunk i                                                                 *)
MatchingSlots(i) ==
    {j \in DOMAIN last.kw :
        \E n \in DOMAIN chunks[i].content : chunks[i].content[n] = last.kw[j][2]}

(* C18: with the default functions the contribution a spread computes for  *)
(* a chunk is, summed over the cue slots the chunk matches,                *)
(* (W/M) * (mas - ln(fan)) with fan = 1 + the number of cue slots the      *)
(* chunk matches; a chunk that matches no slot gets 0.                     *)
FanIsPerChunk ==
    (last.op = "spread" /\ last.err = "none") =>
        \A i \in DOMAIN chunks :
            last.evals[i].total =
                Cardinality(MatchingSlots(i))
                * (((W[1] \div Len(last.kw))
                    * (mas[1] - LnMilli((1 + Cardinality(MatchingSlots(i))) * ONE)))
                   \div ONE)

(* Every chunk of the store has a reference: a list with an entry, or      *)
(* under optimized learning a count >= 1                                   *)
AllReferenced(store, ol) ==
    \A i \in DOMAIN store :
        IF ol THEN store[i].references >= 1 ELSE Len(store[i].references) >= 1

(* C19: every chunk in the store has a non-empty reference history, and a  *)
(* forget that removes the last reference of a chunk removes the chunk.    *)
ChunksKeepReferences ==
    [][/\ AllReferenced(chunks, optimized_learning)
       /\ AllReferenced(chunks', optimized_learning')
       /\ (last'.op = "forget" /\ last'.err = "none" /\ last'.ret) =>
             \A i \in DOMAIN chunks :
                 (chunks[i].content = KwDict(last'.kw) /\ RefCount(chunks[i]) = 1) =>
                     /\ Len(chunks') = Len(chunks) - 1
                     /\ \A j \in DOMAIN chunks' :
                            chunks'[j].content # KwDict(last'.kw)]_vars

(* C19: a forget removed the last reference of a chunk and with it the     *)
(* chunk, leaving another chunk in the store                               *)
LastReferenceForgotten ==
    /\ last.op = "forget" /\ last.err = "none" /\ last.ret
    /\ chunks # <<>>
    /\ \A i \in DOMAIN chunks : chunks[i].content # KwDict(last.kw)

(* C20: the temperature blend divides by is at least the floor, is the     *)
(* explicit temperature when one is set, and is sqrt(2) * noise when the   *)
(* temperature parameter is None.                                          *)
TemperatureFollowsNoise ==
    /\ temperature >= MINIMUM_TEMPERATURE
    /\ temperature_param # None => temperature = temperature_param[1]
    /\ temperature_param = None => temperature = (SQRT_2 * noise) \div ONE

(* C20: a noise just above the floor was assigned while the temperature    *)
(* parameter is None, and the temperature followed it                      *)
TemperatureDerivedNearFloor ==
    /\ last.op = "noise" /\ last.err = "none"
    /\ temperature_param = None
    /\ noise = MINIMUM_TEMPERATURE - 2
    /\ temperature < DEFAULT_NOISE
====
